---- MODULE Spec2Model ----
(***************************************************************************)
(* Tomato detection pipeline: the edge orchestration loop (rasp/main.py),  *)
(* the edge event publisher (rasp/MQTTPublisher/mqtt_client.py) and the    *)
(* relay subscriber (server/MQTTSubscriber/mqtt_client.py).                *)
(*                                                                         *)
(* The specifications share the variables below:                           *)
(*   Spec         the edge loop of main(), from its entry at main.py:46    *)
(*   SpecStart    the startup of both processes: rasp main() up to the     *)
(*                loop and the relay process                               *)
(*   SpecCam      a CameraHandler object and its callers                   *)
(*   SpecEvent    the event record and servo action main() derives from a  *)
(*                model output                                             *)
(*   SpecLive     Spec with the finally block of main() run to its end     *)
(*   SpecBest     one capture_multiple call on a constructed CameraHandler *)
(*   SpecRelay    the relay process: server main() and MQTTSubscriber      *)
(*   SpecPub      the MQTTPublisher object, the broker client's network    *)
(*                thread and the broker's reachability                     *)
(* Each specification leaves the other components' variables untouched.    *)
(***************************************************************************)
EXTENDS Integers, Sequences, FiniteSets, TLC

\* Accepted triggers explored by the edge loop.
MaxTriggers == 3

\* retry_count default of CameraHandler.capture
RetryCount == 3

VARIABLES
    \* ---- edge loop (rasp/main.py) ----
    pc,              \* position of main(): init_arduino, init_camera, load_model,
                     \* start_publisher (startup); wait_trigger, capture, classify,
                     \* publish, actuate, finally_disconnect, finally_release, done
                     \* (loop); exited (return), crashed (unhandled exception)
    tomato_counter,  \* main.py:46
    trigger,         \* number of triggers accepted so far (index of the current one)
    image,           \* local `image`: "none" or "frame"
    is_open,         \* CameraHandler.is_open
    cap,             \* CameraHandler.cap and its device handle: "None" (never
                     \* assigned), "unopened", "open", "released"
    ir_line,         \* what the last read_ir_signal call found on the serial port
    exit_cause,      \* "none", "interrupt" (KeyboardInterrupt), "error" (other exception)
    trace,           \* history: the steps performed, [k, op, ok, out]
    \* ---- relay (server/main.py, server/MQTTSubscriber/mqtt_client.py) ----
    r_pc,            \* position of server main(): start, running, exited
    api_configured,  \* MQTT_CONFIG["api_endpoint"] is non-empty
    r_link,          \* broker session: down, awaiting_connack, up
    r_loop,          \* the client's network thread (loop_start) is running
    r_subs,          \* topics subscribed in the current broker session
    r_conn_log,      \* history: one entry per on_connect call, [rc, called, subs]
    queue,           \* deliveries received and not yet handed to on_message
    next_id,         \* id of the next delivery
    handled,         \* history: one entry per on_message call, [id, kind, api, posts]
    \* ---- edge publisher (rasp/MQTTPublisher/mqtt_client.py) ----
    p_pc,            \* new, ctor_error, ready, connect_called, stopped
    p_attrs,         \* instance attributes assigned by __init__
    p_link,          \* the client holds a broker connection
    p_loop,          \* the client's network thread (loop_start) is running
    broker_up,       \* the broker is reachable
    p_connect,       \* history: "none", or the broker state when connect() was called
    p_connect_ret,   \* "none", or what connect() returned
    p_results,       \* history: one entry per publish_message call, [up, ok]
    \* ---- startup of rasp main() (main.py:19-43) ----
    s_model,         \* "none", "loaded" or "failed": what load_tomato_model gave
    s_cam,           \* "none", or how the camera initialisation ended
    s_fail,          \* "none", or the startup step that ended the process
    \* ---- CameraHandler object (SpecCam) ----
    release_calls,   \* history: number of release() calls (direct, __exit__, __del__)
    handle_frees,    \* history: number of times the device handle was released
    last_capture,    \* history: <<>>, or <<the last capture() call>>
    \* ---- event construction (SpecEvent) ----
    ev_in,           \* the model output: [idx, score]
    ev_out,          \* <<>>, or <<what main() derived from it>>
    \* ---- event ids (rasp/main.py:75) ----
    ids,             \* history: the tomato_id of every payload built, with the
                     \* clock reading and counter it was built from
    \* ---- capture_multiple (SpecBest) ----
    cm_in,           \* the call: num_frames, the device reads of each capture()
                     \* and the sharpness of each attempt's frame
    cm_out           \* <<>>, or <<what capture_multiple returned>>

edgeVars == <<pc, tomato_counter, trigger, image, is_open, cap, ir_line, exit_cause,
              trace>>

relayVars == <<r_pc, api_configured, r_link, r_loop, r_subs, r_conn_log, queue,
               next_id, handled>>

pubVars == <<p_pc, p_attrs, p_link, p_loop, broker_up, p_connect, p_connect_ret,
             p_results>>

startVars == <<s_model, s_cam, s_fail>>

camVars == <<release_calls, handle_frees, last_capture>>

eventVars == <<ev_in, ev_out>>

idVars == <<ids>>

bestVars == <<cm_in, cm_out>>

vars == <<edgeVars, relayVars, pubVars, startVars, camVars, eventVars, idVars,
          bestVars>>

-----------------------------------------------------------------------------
(* Edge: sensor trigger source, ArduinoReader.read_ir_signal                *)

\* What the serial port holds when read_ir_signal is called:
\*   none       in_waiting == 0
\*   badutf8    a line that is not valid UTF-8
\*   malformed  a line that is not JSON
\*   falsy      a JSON line whose value is falsy in Python ({}, 0, null, "", [])
\*   no_detect  {"ir_detected": false, ...}
\*   detect     {"ir_detected": true, ...}
LineKinds == {"none", "badutf8", "malformed", "falsy", "no_detect", "detect"}

\* read_ir_signal: decode() is outside the try block, json.loads inside it.
ReadIrSignal(line) ==
    [raised |-> line = "badutf8",
     data   |-> IF line \in {"none", "badutf8", "malformed"} THEN "None" ELSE line]

\* `if not ir_data` of main.py:51: a non-empty dict is truthy whatever it holds.
Truthy(data) == data \in {"no_detect", "detect"}

-----------------------------------------------------------------------------
(* Edge: CameraHandler.capture                                              *)

\* How _initialize_camera ends:
\*   ctor_raise   cv2.VideoCapture raises: self.cap stays None
\*   open_failed  isOpened() is false
\*   read_failed  the device opened, the dummy read returned ret == False
\*   late_raise   the device opened, a set/read/get call raised
\*   ok
CamInitOutcomes == {"ctor_raise", "open_failed", "read_failed", "late_raise", "ok"}

\* CameraHandler.__init__ and _initialize_camera: every failure is printed
\* and returned as False, which __init__ ignores; nothing is raised.
InitializeCamera(outcome) ==
    [cap     |-> CASE outcome = "ctor_raise"  -> "None"
                   [] outcome = "open_failed" -> "unopened"
                   [] OTHER                   -> "open",
     is_open |-> outcome = "ok",
     raised  |-> FALSE]

\* What one self.cap.read() gives: a frame, (False, None) or (True, None),
\* or an exception.
ReadOutcomes == {"frame", "noframe", "raise"}

\* The for loop of capture(): attempt `a` (0-based) of `n` over the device
\* reads `reads`; a read that raises is caught and the loop goes on. The
\* result is the image and the number of reads made; the frame returned is
\* the one of the last read made.
RECURSIVE CaptureFrom_StopOnRaise(_, _, _)
CaptureFrom_StopOnRaise(reads, a, n) ==
    IF a >= n THEN [img |-> "none", nreads |-> a]
    ELSE IF reads[a + 1] = "frame" THEN [img |-> "frame", nreads |-> a + 1]
    ELSE IF reads[a + 1] = "raise" THEN [img |-> "none", nreads |-> a + 1]
    ELSE CaptureFrom_StopOnRaise(reads, a + 1, n)

RECURSIVE CaptureFrom(_, _, _)
CaptureFrom(reads, a, n) ==
    IF a >= n THEN [img |-> "none", nreads |-> a]
    ELSE IF reads[a + 1] = "frame" THEN [img |-> "frame", nreads |-> a + 1]
    ELSE CaptureFrom(reads, a + 1, n)

CameraCapture(open, reads, n) ==
    IF ~open THEN [img |-> "none", nreads |-> 0] ELSE CaptureFrom(reads, 0, n)

\* CameraHandler.release: guarded by `self.cap is not None`, not by is_open,
\* and self.cap is kept, so every call reaches cap.release(); releasing a
\* VideoCapture that holds no open device does nothing (cv2).
\*   called  cap.release() was called
\*   freed   the device handle was released by this call
ArgMax_FirstFrame(scores) == 1

\* np.argmax of a non-empty list: the index of the first maximum
ArgMax(scores) ==
    CHOOSE i \in DOMAIN scores :
        /\ \A j \in DOMAIN scores : scores[j] <= scores[i]
        /\ \A j \in DOMAIN scores : j < i => scores[j] < scores[i]

\* The for loop of capture_multiple(): iteration `i` (0-based) of `n` calls
\* capture() with its default retry_count over the device reads reads[i+1]
\* and keeps the frame if there is one. A frame is named by the iteration
\* (1-based) that captured it.
RECURSIVE CollectFrames(_, _, _, _, _)
CollectFrames(open, reads, i, n, frames) ==
    IF i >= n THEN [frames |-> frames, calls |-> i]
    ELSE LET frame == CameraCapture(open, reads[i + 1], RetryCount).img
         IN  CollectFrames(open, reads, i + 1, n,
                           IF frame # "none" THEN Append(frames, i + 1) ELSE frames)

\* capture_multiple(num_frames=n): sharp[a] is the Laplacian variance of
\* the frame of iteration a.
CaptureMultiple(open, reads, sharp, n) ==
    LET c == CollectFrames(open, reads, 0, n, <<>>)
        sharpness_scores == [j \in DOMAIN c.frames |-> sharp[c.frames[j]]]
    IN  IF c.frames = <<>>
        THEN [img |-> "none", attempt |-> 0, calls |-> c.calls]
        ELSE [img |-> "frame", attempt |-> c.frames[ArgMax(sharpness_scores)],
              calls |-> c.calls]

CameraRelease_FreesEveryCall(c, open) ==
    IF c = "None"
    THEN [cap |-> c, is_open |-> open, called |-> FALSE, freed |-> FALSE]
    ELSE [cap |-> IF c = "open" THEN "released" ELSE c,
          is_open |-> FALSE, called |-> TRUE, freed |-> c \in {"open", "released"}]

CameraRelease(c, open) ==
    IF c = "None"
    THEN [cap |-> c, is_open |-> open, called |-> FALSE, freed |-> FALSE]
    ELSE [cap |-> IF c = "open" THEN "released" ELSE c,
          is_open |-> FALSE, called |-> TRUE, freed |-> c = "open"]

-----------------------------------------------------------------------------
(* Edge: MQTTPublisher.publish_message                                      *)

\* What client.publish does with the payload: result code 0, a non-zero
\* result code, or an exception.
PublishOutcomes == {"rc0", "rc_err", "raise"}

\* publish_message: json.dumps, client.publish, result[0] == 0; every
\* exception is caught and turned into False.
PublishMessage_IgnoresResultCode(serializable, outcome) ==
    IF ~serializable THEN FALSE
    ELSE outcome # "raise"

PublishMessage(serializable, outcome) ==
    IF ~serializable THEN FALSE
    ELSE IF outcome = "raise" THEN FALSE
    ELSE outcome = "rc0"

-----------------------------------------------------------------------------
(* Edge: the loop of main()                                                 *)

LoopPcs == {"wait_trigger", "capture", "classify", "publish", "actuate"}

\* `out` is what client.publish did, for a publish step.
Entry(k, op, ok) == [k |-> k, op |-> op, ok |-> ok, out |-> "-"]

\* Control flow of one iteration after step `op` ended with `ok`:
\*   capture   None -> continue (main.py:60-62)
\*   classify  an exception of preprocess/predict is not caught in the loop
\*   publish   the return value of publish_message is ignored (main.py:89)
\*   actuate   an exception of send_servo_command is not caught in the loop
AfterStep_ActuateFirst(op, ok) ==
    CASE op = "capture"  -> IF ok THEN "classify" ELSE "wait_trigger"
      [] op = "classify" -> IF ok THEN "actuate" ELSE "finally_disconnect"
      [] op = "actuate"  -> IF ok THEN "publish" ELSE "finally_disconnect"
      [] op = "publish"  -> "wait_trigger"

AfterStep_NoContinue(op, ok) ==
    CASE op = "capture"  -> "classify"
      [] op = "classify" -> IF ok THEN "publish" ELSE "finally_disconnect"
      [] op = "publish"  -> "actuate"
      [] op = "actuate"  -> IF ok THEN "wait_trigger" ELSE "finally_disconnect"

AfterStep_SkipOnPublishFailure(op, ok) ==
    CASE op = "capture"  -> IF ok THEN "classify" ELSE "wait_trigger"
      [] op = "classify" -> IF ok THEN "publish" ELSE "finally_disconnect"
      [] op = "publish"  -> IF ok THEN "actuate" ELSE "wait_trigger"
      [] op = "actuate"  -> IF ok THEN "wait_trigger" ELSE "finally_disconnect"

AfterStep_ErrorSkipsFinally(op, ok) ==
    CASE op = "capture"  -> IF ok THEN "classify" ELSE "wait_trigger"
      [] op = "classify" -> IF ok THEN "publish" ELSE "done"
      [] op = "publish"  -> "actuate"
      [] op = "actuate"  -> IF ok THEN "wait_trigger" ELSE "done"

AfterStep(op, ok) ==
    CASE op = "capture"  -> IF ok THEN "classify" ELSE "wait_trigger"
      [] op = "classify" -> IF ok THEN "publish" ELSE "finally_disconnect"
      [] op = "publish"  -> "actuate"
      [] op = "actuate"  -> IF ok THEN "wait_trigger" ELSE "finally_disconnect"

ExitCauseAfter(next) == IF next = "finally_disconnect" THEN "error" ELSE "none"

\* Clock readings explored: int(time.time()) is any of 0..MaxClock at each
\* reading, repeated and backward readings included.
MaxClock == 1

ClockValues == 0..MaxClock

\* Minimum width of the counter in the id: the 03 of {tomato_counter:03d}
IdCounterWidth == 3

DigitChars == <<"0", "1", "2", "3", "4", "5", "6", "7", "8", "9">>

\* str of a non-negative int
RECURSIVE Decimal(_)
Decimal(n) ==
    IF n < 10 THEN <<DigitChars[n + 1]>>
    ELSE Decimal(n \div 10) \o <<DigitChars[(n % 10) + 1]>>

\* the 0w of a format spec: zeros on the left up to width w, never a cut
RECURSIVE ZeroPad(_, _)
ZeroPad(str, w) == IF Len(str) >= w THEN str ELSE ZeroPad(<<"0">> \o str, w)

TomatoId_NoCounter(t, counter) == <<"t", "m", "_">> \o Decimal(t)

\* tomato_id = f"tm_{int(time.time())}_{tomato_counter:03d}", as the
\* sequence of its characters
TomatoId(t, counter) ==
    <<"t", "m", "_">> \o Decimal(t) \o <<"_">> \o ZeroPad(Decimal(counter), IdCounterWidth)

InitEdge ==
    /\ pc = "wait_trigger"
    /\ tomato_counter = 0
    /\ trigger = 0
    /\ image = "none"
    /\ \E o \in CamInitOutcomes :
         /\ cap = InitializeCamera(o).cap
         /\ is_open = InitializeCamera(o).is_open
    /\ ir_line = "none"
    /\ exit_cause = "none"
    /\ trace = <<>>

\* main.py:50-55
ReadTrigger ==
    /\ pc = "wait_trigger"
    /\ \E line \in LineKinds :
         LET r == ReadIrSignal(line) IN
         /\ ir_line' = line
         /\ IF r.raised
            THEN /\ pc' = "finally_disconnect"
                 /\ exit_cause' = "error"
                 /\ UNCHANGED trigger
            ELSE IF ~Truthy(r.data)
            THEN UNCHANGED <<pc, exit_cause, trigger>>
            ELSE /\ trigger < MaxTriggers
                 /\ trigger' = trigger + 1
                 /\ pc' = "capture"
                 /\ UNCHANGED exit_cause
    /\ UNCHANGED <<tomato_counter, image, is_open, cap, trace>>
    /\ UNCHANGED <<relayVars, pubVars, startVars, camVars, eventVars, idVars, bestVars>>

\* main.py:58-62
Capture ==
    /\ pc = "capture"
    /\ \E reads \in [1..RetryCount -> ReadOutcomes] :
         LET img == CameraCapture(is_open, reads, RetryCount).img IN
         /\ image' = img
         /\ trace' = Append(trace, Entry(trigger, "capture", img # "none"))
         /\ pc' = AfterStep("capture", img # "none")
    /\ UNCHANGED <<tomato_counter, trigger, is_open, cap, ir_line, exit_cause>>
    /\ UNCHANGED <<relayVars, pubVars, startVars, camVars, eventVars, idVars, bestVars>>

\* main.py:65-86: preprocess, model.predict, argmax/max, payload construction
Classify ==
    /\ pc = "classify"
    /\ \E ok \in BOOLEAN, t \in ClockValues :
         /\ trace' = Append(trace, Entry(trigger, "classify", ok))
         /\ pc' = AfterStep("classify", ok)
         /\ exit_cause' = ExitCauseAfter(AfterStep("classify", ok))
         /\ ids' = IF ok
                   THEN Append(ids, [k |-> trigger, at |-> t, n |-> tomato_counter,
                                     id |-> TomatoId(t, tomato_counter)])
                   ELSE ids
    /\ UNCHANGED <<tomato_counter, trigger, image, is_open, cap, ir_line>>
    /\ UNCHANGED <<relayVars, pubVars, startVars, camVars, eventVars, bestVars>>

\* main.py:89
Publish ==
    /\ pc = "publish"
    /\ \E outcome \in PublishOutcomes :
         LET ok == PublishMessage(TRUE, outcome) IN
         /\ trace' = Append(trace, [Entry(trigger, "publish", ok) EXCEPT !.out = outcome])
         /\ pc' = AfterStep("publish", ok)
    /\ UNCHANGED <<tomato_counter, trigger, image, is_open, cap, ir_line, exit_cause>>
    /\ UNCHANGED <<relayVars, pubVars, startVars, camVars, eventVars, idVars, bestVars>>

\* main.py:92-108: send_servo_command, tomato_counter += 1, sleep
Actuate ==
    /\ pc = "actuate"
    /\ \E ok \in BOOLEAN :
         /\ trace' = Append(trace, Entry(trigger, "actuate", ok))
         /\ pc' = AfterStep("actuate", ok)
         /\ exit_cause' = ExitCauseAfter(AfterStep("actuate", ok))
         /\ tomato_counter' = IF ok THEN tomato_counter + 1 ELSE tomato_counter
    /\ UNCHANGED <<trigger, image, is_open, cap, ir_line>>
    /\ UNCHANGED <<relayVars, pubVars, startVars, camVars, eventVars, idVars, bestVars>>

\* main.py:110-111: KeyboardInterrupt anywhere in the loop
Interrupt ==
    /\ pc \in LoopPcs
    /\ pc' = "finally_disconnect"
    /\ exit_cause' = "interrupt"
    /\ UNCHANGED <<tomato_counter, trigger, image, is_open, cap, ir_line, trace>>
    /\ UNCHANGED <<relayVars, pubVars, startVars, camVars, eventVars, idVars, bestVars>>

\* main.py:113, MQTTPublisher.disconnect: loop_stop, client.disconnect
FinallyDisconnect ==
    /\ pc = "finally_disconnect"
    /\ pc' = "finally_release"
    /\ p_pc' = "stopped"
    /\ p_loop' = FALSE
    /\ p_link' = FALSE
    /\ UNCHANGED <<tomato_counter, trigger, image, is_open, cap, ir_line, exit_cause,
                   trace>>
    /\ UNCHANGED <<p_attrs, broker_up, p_connect, p_connect_ret, p_results>>
    /\ UNCHANGED <<relayVars, startVars, camVars, eventVars, idVars, bestVars>>

\* main.py:114, CameraHandler.release
FinallyRelease ==
    /\ pc = "finally_release"
    /\ pc' = "done"
    /\ LET r == CameraRelease(cap, is_open) IN
         /\ cap' = r.cap
         /\ is_open' = r.is_open
         /\ handle_frees' = handle_frees + (IF r.freed THEN 1 ELSE 0)
    /\ release_calls' = release_calls + 1
    /\ UNCHANGED <<tomato_counter, trigger, image, ir_line, exit_cause, trace,
                   last_capture>>
    /\ UNCHANGED <<relayVars, pubVars, startVars, eventVars, idVars, bestVars>>

-----------------------------------------------------------------------------
(* Relay: MQTTSubscriber and server main()                                  *)

\* Deliveries and on_connect calls explored by the relay.
MaxMsgs == 2
MaxConnects == 3

\* timeout of requests.post in forward_to_api
ApiTimeout == 10

Topic == "tomato/predictions"

\* CONNACK result codes: 0 accepted, 5 refused (not authorised).
ConnackCodes == {0, 5}

\* Payload of a delivery:
\*   valid        a JSON object with tomato_id, class_name and confidence
\*   missing_key  JSON that lacks one of the fields on_message prints
\*   not_json     text that is not JSON
\*   bad_utf8     bytes that are not UTF-8
PayloadKinds == {"valid", "missing_key", "not_json", "bad_utf8"}

DecodesAsJson(kind) == kind \in {"valid", "missing_key"}

\* What the backend answers to a POST made while the message is handled
\* (a connection failure is handled like a timeout).
ApiResponses == {"201", "500", "timeout"}

\* MQTTSubscriber.connect: client.connect raises when the broker cannot be
\* reached; otherwise the CONNECT is sent and loop_start starts the thread.
SubscriberConnect(up) ==
    [ret  |-> up,
     link |-> IF up THEN "awaiting_connack" ELSE "down",
     loop |-> up]

\* MQTTSubscriber.on_connect
OnConnect_NoSubscribe(rc, subs) == [subs |-> subs, called |-> FALSE]

OnConnect(rc, subs) ==
    IF rc = 0
    THEN [subs |-> subs \cup {Topic}, called |-> TRUE]
    ELSE [subs |-> subs, called |-> FALSE]

\* MQTTSubscriber.forward_to_api: one requests.post with the fixed timeout;
\* a non-201 status, a timeout, a connection error and any other exception
\* are logged, none is retried or raised.
ForwardToApi(api) ==
    [posts |-> 1, timeout |-> ApiTimeout, saved |-> api = "201", raised |-> FALSE]

\* The exception raised by the try body of on_message (decode, json.loads,
\* the two prints), "none" when it runs to its end.
BodyException(kind) ==
    CASE kind = "bad_utf8"    -> "UnicodeDecodeError"
      [] kind = "not_json"    -> "JSONDecodeError"
      [] kind = "missing_key" -> "KeyError"
      [] kind = "valid"       -> "none"

\* MQTTSubscriber.on_message: `except json.JSONDecodeError` and then
\* `except Exception` catch whatever the body raises; the call of
\* forward_to_api (line 52) is commented out, so no POST is made.
OnMessage_CatchJsonOnly(kind, api) ==
    [raised |-> BodyException(kind) \notin {"none", "JSONDecodeError"},
     posts  |-> 0]

OnMessage(kind, api) ==
    LET exc == BodyException(kind)
        caught == exc = "JSONDecodeError" \/ exc # "none"
    IN  [raised |-> exc # "none" /\ ~caught,
         posts  |-> 0]

RelayIdle ==
    /\ r_pc = "start"
    /\ api_configured = TRUE
    /\ r_link = "down"
    /\ r_loop = FALSE
    /\ r_subs = {}
    /\ r_conn_log = <<>>
    /\ queue = <<>>
    /\ next_id = 1
    /\ handled = <<>>

\* server/main.py:4-18
RelayStart ==
    /\ r_pc = "start"
    /\ IF ~api_configured
       THEN /\ r_pc' = "exited"
            /\ UNCHANGED <<r_link, r_loop>>
       ELSE \E up \in BOOLEAN :
              LET c == SubscriberConnect(up) IN
              /\ r_pc' = IF c.ret THEN "running" ELSE "exited"
              /\ r_link' = c.link
              /\ r_loop' = c.loop
    /\ UNCHANGED <<api_configured, r_subs, r_conn_log, queue, next_id, handled>>
    /\ UNCHANGED <<edgeVars, pubVars, startVars, camVars, eventVars, idVars, bestVars>>

\* The network thread reads the CONNACK and calls on_connect; a refused
\* connection is closed by the broker.
Connack ==
    /\ r_loop
    /\ r_link = "awaiting_connack"
    /\ Len(r_conn_log) < MaxConnects
    /\ \E rc \in ConnackCodes :
         LET c == OnConnect(rc, r_subs) IN
         /\ r_subs' = c.subs
         /\ r_link' = IF rc = 0 THEN "up" ELSE "down"
         /\ r_conn_log' = Append(r_conn_log,
                                 [rc |-> rc, called |-> c.called, subs |-> c.subs])
    /\ UNCHANGED <<r_pc, api_configured, r_loop, queue, next_id, handled>>
    /\ UNCHANGED <<edgeVars, pubVars, startVars, camVars, eventVars, idVars, bestVars>>

\* The connection drops (on_disconnect only logs); the session is clean, so
\* the broker forgets the subscriptions.
ConnectionLost ==
    /\ r_loop
    /\ r_link \in {"awaiting_connack", "up"}
    /\ r_link' = "down"
    /\ r_subs' = {}
    /\ UNCHANGED <<r_pc, api_configured, r_loop, r_conn_log, queue, next_id, handled>>
    /\ UNCHANGED <<edgeVars, pubVars, startVars, camVars, eventVars, idVars, bestVars>>

\* The network thread reconnects on its own.
Reconnect ==
    /\ r_loop
    /\ r_link = "down"
    /\ r_link' = "awaiting_connack"
    /\ UNCHANGED <<r_pc, api_configured, r_loop, r_subs, r_conn_log, queue, next_id,
                   handled>>
    /\ UNCHANGED <<edgeVars, pubVars, startVars, camVars, eventVars, idVars, bestVars>>

\* The broker delivers a message published on a subscribed topic.
Deliver ==
    /\ r_loop
    /\ r_link = "up"
    /\ Topic \in r_subs
    /\ next_id <= MaxMsgs
    /\ \E kind \in PayloadKinds :
         queue' = Append(queue, [id |-> next_id, kind |-> kind])
    /\ next_id' = next_id + 1
    /\ UNCHANGED <<r_pc, api_configured, r_link, r_loop, r_subs, r_conn_log, handled>>
    /\ UNCHANGED <<edgeVars, pubVars, startVars, camVars, eventVars, idVars, bestVars>>

\* The network thread calls on_message for the oldest delivery; an
\* exception that escapes the callback ends the thread.
HandleMessage ==
    /\ r_loop
    /\ queue # <<>>
    /\ \E api \in ApiResponses :
         LET m == Head(queue)
             h == OnMessage(m.kind, api)
         IN  /\ handled' = Append(handled,
                                  [id |-> m.id, kind |-> m.kind, api |-> api,
                                   posts |-> h.posts, raised |-> h.raised])
             /\ r_loop' = ~h.raised
    /\ queue' = Tail(queue)
    /\ UNCHANGED <<r_pc, api_configured, r_link, r_subs, r_conn_log, next_id>>
    /\ UNCHANGED <<edgeVars, pubVars, startVars, camVars, eventVars, idVars, bestVars>>

\* server/main.py:24-27, MQTTSubscriber.disconnect
RelayInterrupt ==
    /\ r_pc = "running"
    /\ r_pc' = "exited"
    /\ r_loop' = FALSE
    /\ r_link' = "down"
    /\ r_subs' = {}
    /\ UNCHANGED <<api_configured, r_conn_log, queue, next_id, handled>>
    /\ UNCHANGED <<edgeVars, pubVars, startVars, camVars, eventVars, idVars, bestVars>>

-----------------------------------------------------------------------------
(* Edge publisher: MQTTPublisher                                            *)

\* publish_message calls explored.
MaxPublishes == 3

\* The keyword the broker address is passed under: broker_url by the
\* module's own example, broker_host by main() through **MQTT_CONFIG.
CtorKeywords == {"broker_url", "broker_host"}

\* MQTTPublisher.__init__(broker_url, broker_port, topic): an unknown
\* keyword is a TypeError; otherwise three attributes are assigned.
PublisherInit(kw) ==
    IF kw = "broker_url"
    THEN [ok |-> TRUE, attrs |-> {"broker_url", "broker_port", "topic"}]
    ELSE [ok |-> FALSE, attrs |-> {}]

\* MQTTPublisher.connect reads self.broker_host: an attribute __init__ never
\* assigned raises AttributeError, which the except clause turns into
\* False before client.connect or loop_start is reached.
PublisherConnect(attrs, up) ==
    IF "broker_host" \notin attrs THEN [ret |-> FALSE, link |-> FALSE, loop |-> FALSE]
    ELSE IF ~up THEN [ret |-> FALSE, link |-> FALSE, loop |-> FALSE]
    ELSE [ret |-> TRUE, link |-> TRUE, loop |-> TRUE]

\* client.publish: result code 0 with a connection, MQTT_ERR_NO_CONN without.
ClientPublish(link) == IF link THEN "rc0" ELSE "rc_err"

PubIdle ==
    /\ p_pc = "new"
    /\ p_attrs = {}
    /\ p_link = FALSE
    /\ p_loop = FALSE
    /\ broker_up = TRUE
    /\ p_connect = "none"
    /\ p_connect_ret = "none"
    /\ p_results = <<>>

InitPub ==
    /\ p_pc = "new"
    /\ p_attrs = {}
    /\ p_link = FALSE
    /\ p_loop = FALSE
    /\ broker_up \in BOOLEAN
    /\ p_connect = "none"
    /\ p_connect_ret = "none"
    /\ p_results = <<>>

PubConstruct ==
    /\ p_pc = "new"
    /\ \E kw \in CtorKeywords :
         LET c == PublisherInit(kw) IN
         /\ p_pc' = IF c.ok THEN "ready" ELSE "ctor_error"
         /\ p_attrs' = c.attrs
    /\ UNCHANGED <<p_link, p_loop, broker_up, p_connect, p_connect_ret, p_results>>
    /\ UNCHANGED <<edgeVars, relayVars, startVars, camVars, eventVars, idVars, bestVars>>

PubConnect ==
    /\ p_pc = "ready"
    /\ LET c == PublisherConnect(p_attrs, broker_up) IN
         /\ p_connect_ret' = c.ret
         /\ p_link' = c.link
         /\ p_loop' = c.loop
    /\ p_connect' = IF broker_up THEN "up" ELSE "down"
    /\ p_pc' = "connect_called"
    /\ UNCHANGED <<p_attrs, broker_up, p_results>>
    /\ UNCHANGED <<edgeVars, relayVars, startVars, camVars, eventVars, idVars, bestVars>>

PubPublish ==
    /\ p_pc \in {"ready", "connect_called"}
    /\ Len(p_results) < MaxPublishes
    /\ p_results' = Append(p_results,
                           [up |-> broker_up, conn |-> p_connect,
                            ok |-> PublishMessage(TRUE, ClientPublish(p_link))])
    /\ UNCHANGED <<p_pc, p_attrs, p_link, p_loop, broker_up, p_connect, p_connect_ret>>
    /\ UNCHANGED <<edgeVars, relayVars, startVars, camVars, eventVars, idVars, bestVars>>

\* The broker becomes unreachable: the connection drops.
BrokerDown ==
    /\ broker_up
    /\ broker_up' = FALSE
    /\ p_link' = FALSE
    /\ UNCHANGED <<p_pc, p_attrs, p_loop, p_connect, p_connect_ret, p_results>>
    /\ UNCHANGED <<edgeVars, relayVars, startVars, camVars, eventVars, idVars, bestVars>>

\* The broker becomes reachable again: a running network thread (started by
\* loop_start) reconnects; without it nothing does.
BrokerUp ==
    /\ ~broker_up
    /\ broker_up' = TRUE
    /\ p_link' = p_loop
    /\ UNCHANGED <<p_pc, p_attrs, p_loop, p_connect, p_connect_ret, p_results>>
    /\ UNCHANGED <<edgeVars, relayVars, startVars, camVars, eventVars, idVars, bestVars>>

\* MQTTPublisher.disconnect: loop_stop, client.disconnect
PubDisconnect ==
    /\ p_pc \in {"ready", "connect_called"}
    /\ p_pc' = "stopped"
    /\ p_loop' = FALSE
    /\ p_link' = FALSE
    /\ UNCHANGED <<p_attrs, broker_up, p_connect, p_connect_ret, p_results>>
    /\ UNCHANGED <<edgeVars, relayVars, startVars, camVars, eventVars, idVars, bestVars>>

-----------------------------------------------------------------------------
(* Edge startup: rasp main() before the loop                                *)

\* The keyword main() passes the broker address under: the first key of
\* MQTT_CONFIG, expanded by MQTTPublisher(**MQTT_CONFIG).
MqttConfigKeyword == "broker_host"

\* ArduinoReader(**ARDUINO_CONFIG): serial.Serial raises when the port
\* cannot be opened, and main() has no handler around it.
AfterArduinoInit(ok) == IF ok THEN "init_camera" ELSE "crashed"

\* camera = CameraHandler(device=0): __init__ discards the result of
\* _initialize_camera and main() does not look at is_open.
AfterCameraInit(opened) == "load_model"

AfterLoadModel_NoCheck(loaded) == "start_publisher"

\* if model is None: return
AfterLoadModel(loaded) == IF loaded THEN "start_publisher" ELSE "exited"

\* if not mqtt_pub.connect(): return
AfterConnect(ret) == IF ret THEN "wait_trigger" ELSE "exited"

InitStart ==
    /\ pc = "init_arduino"
    /\ tomato_counter = 0
    /\ trigger = 0
    /\ image = "none"
    /\ is_open = FALSE
    /\ cap = "None"
    /\ ir_line = "none"
    /\ exit_cause = "none"
    /\ trace = <<>>
    /\ s_model = "none"
    /\ s_cam = "none"
    /\ s_fail = "none"

\* main.py:24
StartArduino ==
    /\ pc = "init_arduino"
    /\ \E ok \in BOOLEAN :
         /\ pc' = AfterArduinoInit(ok)
         /\ s_fail' = IF ok THEN "none" ELSE "arduino"
    /\ UNCHANGED <<tomato_counter, trigger, image, is_open, cap, ir_line, exit_cause,
                   trace, s_model, s_cam>>
    /\ UNCHANGED <<relayVars, pubVars, camVars, eventVars, idVars, bestVars>>

\* main.py:27
StartCamera ==
    /\ pc = "init_camera"
    /\ \E o \in CamInitOutcomes :
         LET c == InitializeCamera(o) IN
         /\ cap' = c.cap
         /\ is_open' = c.is_open
         /\ s_cam' = o
         /\ pc' = AfterCameraInit(c.is_open)
    /\ UNCHANGED <<tomato_counter, trigger, image, ir_line, exit_cause, trace,
                   s_model, s_fail>>
    /\ UNCHANGED <<relayVars, pubVars, camVars, eventVars, idVars, bestVars>>

\* main.py:32-36: load_tomato_model turns every exception into None.
LoadModel ==
    /\ pc = "load_model"
    /\ \E loaded \in BOOLEAN :
         /\ s_model' = IF loaded THEN "loaded" ELSE "failed"
         /\ pc' = AfterLoadModel(loaded)
         /\ s_fail' = IF loaded THEN "none" ELSE "model"
    /\ UNCHANGED <<tomato_counter, trigger, image, is_open, cap, ir_line, exit_cause,
                   trace, s_cam>>
    /\ UNCHANGED <<relayVars, pubVars, camVars, eventVars, idVars, bestVars>>

\* main.py:39-43: the constructor call and connect(); a TypeError from the
\* constructor is not handled by main().
StartPublisher ==
    /\ pc = "start_publisher"
    /\ LET i == PublisherInit(MqttConfigKeyword)
           c == PublisherConnect(i.attrs, broker_up)
       IN  IF ~i.ok
           THEN /\ p_pc' = "ctor_error"
                /\ p_attrs' = i.attrs
                /\ pc' = "crashed"
                /\ s_fail' = "publisher"
                /\ UNCHANGED <<p_link, p_loop, p_connect, p_connect_ret>>
           ELSE /\ p_pc' = "connect_called"
                /\ p_attrs' = i.attrs
                /\ p_connect' = IF broker_up THEN "up" ELSE "down"
                /\ p_connect_ret' = c.ret
                /\ p_link' = c.link
                /\ p_loop' = c.loop
                /\ pc' = AfterConnect(c.ret)
                /\ s_fail' = IF c.ret THEN "none" ELSE "connect"
    /\ UNCHANGED <<tomato_counter, trigger, image, is_open, cap, ir_line, exit_cause,
                   trace, s_model, s_cam, broker_up, p_results>>
    /\ UNCHANGED <<relayVars, camVars, eventVars, idVars, bestVars>>

-----------------------------------------------------------------------------
(* CameraHandler as an object: construction, capture, release               *)

\* Largest retry_count explored, and release() calls explored.
MaxRetries == 3
MaxReleases == 3

InitCam ==
    /\ pc = "wait_trigger"
    /\ tomato_counter = 0
    /\ trigger = 0
    /\ image = "none"
    /\ is_open = FALSE
    /\ cap = "None"
    /\ ir_line = "none"
    /\ exit_cause = "none"
    /\ trace = <<>>
    /\ s_model = "none"
    /\ s_cam = "none"
    /\ s_fail = "none"
    /\ release_calls = 0
    /\ handle_frees = 0
    /\ last_capture = <<>>

\* CameraHandler(...)
CamConstruct ==
    /\ s_cam = "none"
    /\ \E o \in CamInitOutcomes :
         LET c == InitializeCamera(o) IN
         /\ cap' = c.cap
         /\ is_open' = c.is_open
         /\ s_cam' = o
    /\ UNCHANGED <<pc, tomato_counter, trigger, image, ir_line, exit_cause, trace,
                   s_model, s_fail, camVars>>
    /\ UNCHANGED <<relayVars, pubVars, eventVars, idVars, bestVars>>

\* capture(retry_count=k) against a device whose next reads are `reads`
CamCapture ==
    /\ s_cam # "none"
    /\ \E k \in 0..MaxRetries :
         \E reads \in [1..k -> ReadOutcomes] :
           LET r == CameraCapture(is_open, reads, k) IN
           last_capture' = << [k |-> k, reads |-> reads, open |-> is_open,
                               img |-> r.img, nreads |-> r.nreads] >>
    /\ UNCHANGED <<edgeVars, startVars, release_calls, handle_frees>>
    /\ UNCHANGED <<relayVars, pubVars, eventVars, idVars, bestVars>>

\* release(), called directly (as main() does on shutdown), by __exit__ or
\* by __del__: the latter two only call release().
CamRelease ==
    /\ s_cam # "none"
    /\ release_calls < MaxReleases
    /\ LET r == CameraRelease(cap, is_open) IN
         /\ cap' = r.cap
         /\ is_open' = r.is_open
         /\ handle_frees' = handle_frees + (IF r.freed THEN 1 ELSE 0)
    /\ release_calls' = release_calls + 1
    /\ UNCHANGED <<pc, tomato_counter, trigger, image, ir_line, exit_cause, trace,
                   startVars, last_capture>>
    /\ UNCHANGED <<relayVars, pubVars, eventVars, idVars, bestVars>>

-----------------------------------------------------------------------------
(* Event construction: class name, confidence, servo action                 *)

\* Class indices explored: this many below and above the configured keys.
IdxSpan == 2

\* Scores are counted in tenths; this many tenths below 0.0 and above 1.0
\* are explored.
ScoreSpan == 2

\* The score 1.0, in tenths.
ScoreOne == 10

ClassIdxValues == (0 - IdxSpan)..(3 + IdxSpan)

ScoreValues == (0 - ScoreSpan)..(ScoreOne + ScoreSpan)

TOMATO_CLASSES ==
    (0 :> "unripe") @@ (1 :> "ripe") @@ (2 :> "old") @@ (3 :> "damaged")

SERVO_ACTIONS ==
    (0 :> [servo |-> 1, angle |-> 45]) @@ (1 :> [servo |-> 1, angle |-> 90]) @@
    (2 :> [servo |-> 1, angle |-> 135]) @@ (3 :> [servo |-> 1, angle |-> 180])

\* dict.get(key, default)
DictGet(d, key, default) == IF key \in DOMAIN d THEN d[key] ELSE default

GetServoAction_DefaultFirstBin(class_idx) ==
    DictGet(SERVO_ACTIONS, class_idx, SERVO_ACTIONS[0])

\* get_servo_action
GetServoAction(class_idx) ==
    DictGet(SERVO_ACTIONS, class_idx, [servo |-> 1, angle |-> 180])

ClassName_Unknown(class_idx) == DictGet(TOMATO_CLASSES, class_idx, "unknown")

\* class_name = TOMATO_CLASSES.get(class_idx, "-1")
ClassName(class_idx) == DictGet(TOMATO_CLASSES, class_idx, "-1")

\* confidence = float(np.max(y_pred)): the maximum score as it is.
Confidence(score) == score

InitEvent ==
    /\ ev_in \in [idx : ClassIdxValues, score : ScoreValues]
    /\ ev_out = <<>>

\* main.py:69-86 and 93: the payload fields derived from the model output
\* and the servo command sent for it.
BuildEvent ==
    /\ ev_out = <<>>
    /\ ev_out' = << [class        |-> ev_in.idx,
                     class_name   |-> ClassName(ev_in.idx),
                     confidence   |-> Confidence(ev_in.score),
                     servo_action |-> GetServoAction(ev_in.idx)] >>
    /\ UNCHANGED ev_in
    /\ UNCHANGED <<edgeVars, relayVars, pubVars, startVars, camVars, idVars, bestVars>>

-----------------------------------------------------------------------------
(* CameraHandler.capture_multiple                                           *)

\* Largest num_frames explored, and largest sharpness score explored.
MaxFrames == 2
MaxSharp == 1

CaptureMultipleCalls ==
    UNION { [n     : {n},
             reads : [1..n -> [1..RetryCount -> ReadOutcomes]],
             sharp : [1..n -> 0..MaxSharp]] : n \in 0..MaxFrames }

\* A constructed CameraHandler and the call made on it.
InitBest ==
    /\ pc = "wait_trigger"
    /\ tomato_counter = 0
    /\ trigger = 0
    /\ image = "none"
    /\ \E o \in CamInitOutcomes :
         /\ cap = InitializeCamera(o).cap
         /\ is_open = InitializeCamera(o).is_open
         /\ s_cam = o
    /\ ir_line = "none"
    /\ exit_cause = "none"
    /\ trace = <<>>
    /\ s_model = "none"
    /\ s_fail = "none"
    /\ cm_in \in CaptureMultipleCalls
    /\ cm_out = <<>>

CaptureMultipleCall ==
    /\ cm_out = <<>>
    /\ cm_out' = << CaptureMultiple(is_open, cm_in.reads, cm_in.sharp, cm_in.n) >>
    /\ UNCHANGED cm_in
    /\ UNCHANGED <<edgeVars, relayVars, pubVars, startVars, camVars, eventVars, idVars>>

-----------------------------------------------------------------------------
(* Specifications                                                           *)

StartIdle ==
    /\ s_model = "loaded"
    /\ s_cam = "none"
    /\ s_fail = "none"

CamIdle ==
    /\ release_calls = 0
    /\ handle_frees = 0
    /\ last_capture = <<>>

EventIdle ==
    /\ ev_in = [idx |-> 0, score |-> 0]
    /\ ev_out = <<>>

IdIdle == ids = <<>>

BestIdle ==
    /\ cm_in = [n |-> 0, reads |-> <<>>, sharp |-> <<>>]
    /\ cm_out = <<>>

\* The publisher as the loop finds it: constructed, connect() returned
\* True, the network thread running.
PubConnected ==
    /\ p_pc = "connect_called"
    /\ p_attrs = PublisherInit("broker_url").attrs
    /\ p_link = TRUE
    /\ p_loop = TRUE
    /\ broker_up = TRUE
    /\ p_connect = "up"
    /\ p_connect_ret = TRUE
    /\ p_results = <<>>

Init ==
    /\ InitEdge /\ RelayIdle /\ PubConnected /\ StartIdle /\ CamIdle /\ EventIdle
    /\ IdIdle /\ BestIdle

Next ==
    \/ ReadTrigger
    \/ Capture
    \/ Classify
    \/ Publish
    \/ Actuate
    \/ Interrupt
    \/ FinallyDisconnect
    \/ FinallyRelease

Spec == Init /\ [][Next]_vars

\* The finally block is straight-line code of the one thread of main():
\* once entered, each of its two statements is executed.
SpecLive ==
    Init /\ [][Next]_vars /\ WF_vars(FinallyDisconnect) /\ WF_vars(FinallyRelease)

EdgeIdle ==
    /\ pc = "wait_trigger"
    /\ tomato_counter = 0
    /\ trigger = 0
    /\ image = "none"
    /\ is_open = TRUE
    /\ cap = "open"
    /\ ir_line = "none"
    /\ exit_cause = "none"
    /\ trace = <<>>

InitRelay ==
    /\ api_configured \in BOOLEAN
    /\ r_pc = "start"
    /\ r_link = "down"
    /\ r_loop = FALSE
    /\ r_subs = {}
    /\ r_conn_log = <<>>
    /\ queue = <<>>
    /\ next_id = 1
    /\ handled = <<>>

NextRelay ==
    \/ RelayStart
    \/ Connack
    \/ ConnectionLost
    \/ Reconnect
    \/ Deliver
    \/ HandleMessage
    \/ RelayInterrupt

RelayInit ==
    /\ EdgeIdle /\ InitRelay /\ PubIdle /\ StartIdle /\ CamIdle /\ EventIdle
    /\ IdIdle /\ BestIdle

SpecRelay == RelayInit /\ [][NextRelay]_vars

NextPub ==
    \/ PubConstruct
    \/ PubConnect
    \/ PubPublish
    \/ BrokerDown
    \/ BrokerUp
    \/ PubDisconnect

PubInit ==
    /\ EdgeIdle /\ RelayIdle /\ InitPub /\ StartIdle /\ CamIdle /\ EventIdle
    /\ IdIdle /\ BestIdle

SpecPub == PubInit /\ [][NextPub]_vars

\* Both processes from their entry points: the edge startup sequence and
\* the relay's startup and connection handling.
NextStart ==
    \/ StartArduino
    \/ StartCamera
    \/ LoadModel
    \/ StartPublisher
    \/ RelayStart
    \/ Connack
    \/ ConnectionLost
    \/ Reconnect
    \/ RelayInterrupt

StartInit ==
    /\ InitStart /\ InitRelay /\ InitPub /\ CamIdle /\ EventIdle
    /\ IdIdle /\ BestIdle

SpecStart == StartInit /\ [][NextStart]_vars

NextCam ==
    \/ CamConstruct
    \/ CamCapture
    \/ CamRelease

CamInit ==
    /\ InitCam /\ RelayIdle /\ PubIdle /\ EventIdle
    /\ IdIdle /\ BestIdle

SpecCam == CamInit /\ [][NextCam]_vars

NextEvent == BuildEvent

EventInit ==
    /\ EdgeIdle /\ RelayIdle /\ PubIdle /\ StartIdle /\ CamIdle /\ InitEvent
    /\ IdIdle /\ BestIdle

SpecEvent == EventInit /\ [][NextEvent]_vars

NextBest == CaptureMultipleCall

BestInit == InitBest /\ RelayIdle /\ PubIdle /\ CamIdle /\ EventIdle /\ IdIdle

SpecBest == BestInit /\ [][NextBest]_vars

-----------------------------------------------------------------------------
(* Edge loop: properties                                                    *)

Rank(op) ==
    CASE op = "capture"  -> 1
      [] op = "classify" -> 2
      [] op = "publish"  -> 3
      [] op = "actuate"  -> 4

StepsOf(k, op) == {i \in DOMAIN trace : trace[i].k = k /\ trace[i].op = op}

\* C1: one trigger is fully processed before the next is considered: the
\* steps of every trigger occur in the order capture, classify, publish,
\* actuate, each directly after its predecessor step of the same trigger,
\* the publish of an event precedes its servo command, and no step of a
\* later trigger occurs before a step of an earlier one.
C1_SequentialProcessing ==
    /\ \A i, j \in DOMAIN trace :
         i < j => \/ trace[i].k < trace[j].k
                  \/ /\ trace[i].k = trace[j].k
                     /\ Rank(trace[i].op) < Rank(trace[j].op)
    /\ \A j \in DOMAIN trace :
         Rank(trace[j].op) > 1 =>
            /\ j > 1
            /\ trace[j - 1].k = trace[j].k
            /\ Rank(trace[j - 1].op) = Rank(trace[j].op) - 1
    /\ \A j \in DOMAIN trace :
         trace[j].op = "actuate" =>
            \E i \in 1..(j - 1) : trace[i].k = trace[j].k /\ trace[i].op = "publish"

\* Two triggers went through all four steps.
C1_Witness ==
    \E k1, k2 \in 1..MaxTriggers :
        /\ k1 < k2
        /\ \A op \in {"capture", "classify", "publish", "actuate"} :
              StepsOf(k1, op) # {} /\ StepsOf(k2, op) # {}

\* The step that ends classification with a failure.
ClassifyFailedStep ==
    /\ pc = "classify"
    /\ Len(trace') = Len(trace) + 1
    /\ trace'[Len(trace')].op = "classify"
    /\ ~trace'[Len(trace')].ok

\* C2: a classification failure drops the event for that trigger only:
\* nothing is published, no servo command is sent, the counter is unchanged
\* and the loop is back in wait_trigger, ready for later triggers.
C2_ClassifyFailureDropsTrigger ==
    [][ClassifyFailedStep =>
          /\ pc' = "wait_trigger"
          /\ tomato_counter' = tomato_counter
          /\ StepsOf(trigger, "publish")' = {}
          /\ StepsOf(trigger, "actuate")' = {}]_vars

\* The step that ends capture() with no frame.
CaptureFailedStep ==
    /\ pc = "capture"
    /\ Len(trace') = Len(trace) + 1
    /\ trace'[Len(trace')].op = "capture"
    /\ ~trace'[Len(trace')].ok

\* C3: when capture() returns no frame the loop returns to wait_trigger
\* with the counter unchanged, and that trigger gets no classification,
\* publish or servo command.
C3_CaptureFailureDropsTrigger ==
    /\ [](\A i \in DOMAIN trace :
            (trace[i].op = "capture" /\ ~trace[i].ok) =>
               \A j \in DOMAIN trace : trace[j].k = trace[i].k => j = i)
    /\ [][CaptureFailedStep =>
            /\ pc' = "wait_trigger"
            /\ tomato_counter' = tomato_counter]_vars

\* A capture failed and a later trigger was still actuated.
C3_Witness ==
    \E i, j \in DOMAIN trace :
        /\ i < j
        /\ trace[i].op = "capture" /\ ~trace[i].ok
        /\ trace[j].op = "actuate" /\ trace[j].ok

NumClassified ==
    Cardinality({i \in DOMAIN trace : trace[i].op = "classify" /\ trace[i].ok})

\* C4: whenever no trigger is in progress and the operator has not
\* interrupted the loop, the event counter equals the number of triggers
\* whose classification succeeded, whatever the publish and actuation
\* outcomes were.
C4_CounterCountsClassified ==
    (pc \in {"wait_trigger", "done"} /\ exit_cause # "interrupt")
        => tomato_counter = NumClassified

\* C5: actuation does not depend on the publish outcome: every successful
\* classification is followed by the publish, and every publish, whether it
\* returned true or false, is followed by exactly one servo command of the
\* same event, unless the operator interrupts in between.
C5_ActuationIndependentOfPublish ==
    \A i \in DOMAIN trace :
        /\ (trace[i].op = "classify" /\ trace[i].ok) =>
              IF i < Len(trace)
              THEN trace[i + 1].k = trace[i].k /\ trace[i + 1].op = "publish"
              ELSE pc = "publish" \/ exit_cause = "interrupt"
        /\ trace[i].op = "publish" =>
              IF i < Len(trace)
              THEN /\ trace[i + 1].k = trace[i].k
                   /\ trace[i + 1].op = "actuate"
                   /\ Cardinality(StepsOf(trace[i].k, "actuate")) = 1
              ELSE pc = "actuate" \/ exit_cause = "interrupt"

\* One event was actuated after a failed publish, another after a
\* successful one.
C5_Witness ==
    \E i, j \in DOMAIN trace :
        /\ i < Len(trace) /\ j < Len(trace)
        /\ trace[i].op = "publish" /\ ~trace[i].ok /\ trace[i + 1].op = "actuate"
        /\ trace[j].op = "publish" /\ trace[j].ok /\ trace[j + 1].op = "actuate"

-----------------------------------------------------------------------------
(* Relay: properties                                                        *)

\* C6: for every delivered message whose payload decodes as JSON the
\* on-message handler issues exactly one HTTP POST of the event (the POST
\* of forward_to_api, with its fixed timeout).
C6_DecodedMessageForwardedOnce ==
    \A i \in DOMAIN handled :
        DecodesAsJson(handled[i].kind) =>
            handled[i].posts = ForwardToApi(handled[i].api).posts

\* C7: for every delivered message whose payload is not decodable as JSON
\* the handler returns without raising and sends nothing to the backend,
\* the message is not queued again, and the network thread stays able to
\* handle the next delivery for as long as the process runs.
C7_MalformedDropped ==
    /\ \A i \in DOMAIN handled :
         ~DecodesAsJson(handled[i].kind) =>
            /\ ~handled[i].raised
            /\ handled[i].posts = 0
            /\ \A q \in DOMAIN queue : queue[q].id # handled[i].id
    /\ (r_pc = "running" /\ \E i \in DOMAIN handled : ~DecodesAsJson(handled[i].kind))
          => r_loop

\* A malformed payload was handled and a later delivery was handled after it.
C7_Witness ==
    \E i, j \in DOMAIN handled :
        /\ i < j
        /\ ~DecodesAsJson(handled[i].kind)
        /\ handled[j].kind = "valid"
        /\ r_pc = "running"

\* C8: when the backend answers the forward of a message with a failure
\* (non-201 status, timeout, connection failure) that message is not
\* retried, and every valid message delivered later is still forwarded.
C8_ForwardFailureKeepsForwarding ==
    \A i, j \in DOMAIN handled :
        (i < j /\ handled[i].kind = "valid" /\ handled[i].api # "201") =>
            /\ handled[i].posts <= 1
            /\ (handled[j].kind = "valid" => handled[j].posts = 1)

\* C9: after every successful broker connection, a reconnection included,
\* the subscriber is subscribed to the configured topic, and an on_connect
\* with rc # 0 issues no subscription.
C9_SubscribedAfterEveryConnect ==
    /\ r_link = "up" => r_subs = {Topic}
    /\ \A i \in DOMAIN r_conn_log :
         IF r_conn_log[i].rc = 0
         THEN r_conn_log[i].called /\ r_conn_log[i].subs = {Topic}
         ELSE ~r_conn_log[i].called

\* The subscriber is connected again after a first connection, and a
\* connection attempt was refused in between.
C9_Witness ==
    /\ r_link = "up"
    /\ \E i, j, m \in DOMAIN r_conn_log :
         /\ i < m /\ m < j
         /\ r_conn_log[i].rc = 0
         /\ r_conn_log[m].rc # 0
         /\ r_conn_log[j].rc = 0

-----------------------------------------------------------------------------
(* Edge publisher: properties                                               *)

\* C10: once connect() has been called with the broker reachable, a broker
\* connection that dropped is restored by the network thread whenever the
\* broker is reachable again, without any further call by the main loop,
\* and a publish_message issued then returns true.
C10_ReconnectRestoresPublish ==
    /\ (p_pc = "connect_called" /\ p_connect = "up" /\ broker_up) => p_link
    /\ \A i \in DOMAIN p_results :
         (p_results[i].conn = "up" /\ p_results[i].up) => p_results[i].ok

-----------------------------------------------------------------------------
(* Edge loop: trigger source and publisher properties                       *)

\* C14: the loop leaves wait_trigger for a capture only after a well-formed
\* frame that reports a detection (ir_detected true); after no line, a
\* malformed line or a frame with ir_detected false it stays in wait_trigger
\* and does not terminate.
C14_LeavesWaitOnlyOnDetection ==
    [][(pc = "wait_trigger" /\ exit_cause' # "interrupt") =>
          IF pc' = "capture" THEN ir_line' = "detect" ELSE pc' = "wait_trigger"]_vars

\* C15: publish_message never raises to its caller, returns true exactly
\* when the client accepted the message (result code 0) and false on a
\* serialization or transport failure; the loop makes one publish attempt
\* per event and goes on to the actuation whatever it returned.
C15_PublishReturnsBoolOnce ==
    /\ \A ser \in BOOLEAN, o \in PublishOutcomes :
         /\ PublishMessage(ser, o) \in BOOLEAN
         /\ PublishMessage(ser, o) = (ser /\ o = "rc0")
    /\ \A i \in DOMAIN trace :
         trace[i].op = "publish" =>
            /\ trace[i].ok = (trace[i].out = "rc0")
            /\ Cardinality(StepsOf(trace[i].k, "publish")) = 1
            /\ i = Len(trace) => (pc = "actuate" \/ exit_cause = "interrupt")

\* One run saw a publish accepted, one refused with a result code and one
\* that raised inside publish_message, each followed by the next step.
C15_Witness ==
    \A o \in PublishOutcomes :
        \E i \in DOMAIN trace :
            /\ trace[i].op = "publish"
            /\ trace[i].out = o
            /\ i < Len(trace)


-----------------------------------------------------------------------------
(* Startup: properties                                                      *)

\* C11: when the broker is reachable at startup, the step that constructs
\* the publisher from the edge configuration and calls connect() leaves the
\* publisher connected with its background loop running, connect() having
\* returned true, and the edge process at the head of the trigger loop.
C11_StartupConnects ==
    [][(pc = "start_publisher" /\ broker_up /\ pc' # "start_publisher") =>
          /\ p_pc' = "connect_called"
          /\ p_connect_ret'
          /\ p_link'
          /\ p_loop'
          /\ pc' = "wait_trigger"]_vars

\* C12: startup errors are fatal and not retried. An edge process whose
\* model failed to load, or whose publisher failed to construct or connect,
\* has terminated, at the step that failed, with no trigger read and no
\* capture, publish or actuation done, and it reaches the trigger loop only
\* with a loaded model and a successful connect(); a relay without a
\* backend endpoint has terminated or not yet started, and has never
\* connected or subscribed.  No action is enabled in a terminated process.
C12_StartupErrorsFatal ==
    /\ s_model = "failed" =>
          /\ pc = "exited"
          /\ s_fail = "model"
          /\ p_pc = "new"
    /\ (p_pc = "ctor_error" \/ (p_pc = "connect_called" /\ ~p_connect_ret)) =>
          /\ pc \in {"crashed", "exited"}
          /\ s_fail \in {"publisher", "connect"}
          /\ ~p_link /\ ~p_loop
    /\ pc \in {"crashed", "exited"} =>
          /\ trigger = 0 /\ trace = <<>> /\ ir_line = "none" /\ p_results = <<>>
          /\ ~ENABLED StartArduino /\ ~ENABLED StartCamera
          /\ ~ENABLED LoadModel /\ ~ENABLED StartPublisher
    /\ pc = "wait_trigger" =>
          (s_model = "loaded" /\ p_pc = "connect_called" /\ p_connect_ret)
    /\ ~api_configured =>
          /\ r_pc \in {"start", "exited"}
          /\ r_link = "down"
          /\ ~r_loop
          /\ r_subs = {}
          /\ r_conn_log = <<>>
          /\ r_pc = "exited" => ~ENABLED RelayStart

\* The model failed to load and the edge process has exited; the relay had
\* no endpoint and has exited.
C12_Witness ==
    /\ s_model = "failed"
    /\ pc = "exited"
    /\ ~api_configured
    /\ r_pc = "exited"

\* C13: a camera that failed to initialise ends the startup: the edge
\* process never proceeds to the model load, the publisher or the trigger
\* loop holding a camera whose initialisation failed.
C13_CameraInitFailureTerminal ==
    (s_cam \notin {"none", "ok"}) =>
        /\ pc \notin {"load_model", "start_publisher"} \cup LoopPcs
        /\ s_fail \notin {"model", "publisher", "connect"}


-----------------------------------------------------------------------------
(* CameraHandler: properties                                                *)

FrameReads(c) == {i \in 1..c.k : c.reads[i] = "frame"}

\* C16: capture(retry_count=k) on an opened camera returns (it is defined
\* for every k and every sequence of device reads), makes at most k reads,
\* returns a frame exactly when one of the k reads yields a usable frame,
\* and then it is the frame of the first such read, every earlier read,
\* raising or not, having used one attempt; it fails after exactly k reads
\* when none of them yields a usable frame.
C16_CaptureBoundedRetries ==
    \A i \in DOMAIN last_capture :
        LET c == last_capture[i] IN
        c.open =>
            /\ c.img \in {"frame", "none"}
            /\ c.nreads <= c.k
            /\ (c.img = "frame") = (FrameReads(c) # {})
            /\ c.img = "frame" =>
                  /\ c.nreads \in FrameReads(c)
                  /\ \A j \in FrameReads(c) : c.nreads <= j
            /\ c.img = "none" => c.nreads = c.k

\* A capture that succeeded on its last attempt, after a read that raised
\* and a read without a frame.
C16_Witness ==
    \E i \in DOMAIN last_capture :
        /\ last_capture[i].open
        /\ last_capture[i].k = 3
        /\ last_capture[i].reads = <<"raise", "noframe", "frame">>
        /\ last_capture[i].img = "frame"

-----------------------------------------------------------------------------
(* Event construction: properties                                           *)

\* C18: get_servo_action returns, for a class index in the actuation map
\* (0..3), that index's entry (servo 1 at 45, 90, 135, 180 degrees), and for
\* every other index the default reject action (servo 1, 180 degrees); it
\* is defined for every index, and the servo command of a built event is
\* that action.
C18_ServoActionTotal ==
    /\ \A i \in ClassIdxValues :
          GetServoAction(i) =
              [servo |-> 1,
               angle |-> CASE i = 0 -> 45 [] i = 1 -> 90 [] i = 2 -> 135 [] OTHER -> 180]
    /\ \A e \in DOMAIN ev_out :
          /\ ev_out[e].servo_action = GetServoAction(ev_out[e].class)
          /\ ev_out[e].class \notin 0..3 =>
                ev_out[e].servo_action = [servo |-> 1, angle |-> 180]

\* An event was built for a class index outside the map.
C18_Witness ==
    \E e \in DOMAIN ev_out :
        /\ ev_out[e].class \notin 0..3
        /\ ev_out[e].servo_action.angle = 180

\* C19 as stated: the class_name of a built event is the fixed lookup value
\* of a class index in 0..3 and the label "unknown" for every other index.
C19_UnknownLabel ==
    \A e \in DOMAIN ev_out :
        ev_out[e].class_name =
            CASE ev_out[e].class = 0 -> "unripe"
              [] ev_out[e].class = 1 -> "ripe"
              [] ev_out[e].class = 2 -> "old"
              [] ev_out[e].class = 3 -> "damaged"
              [] OTHER -> "unknown"

\* C19 amended: the class_name of a built event is the fixed lookup value
\* of a class index in 0..3 and the default label "-1" for every other
\* index; the lookup is defined for every index.
C19_DefaultLabel ==
    /\ \A i \in ClassIdxValues : ClassName(i) \in {"unripe", "ripe", "old", "damaged", "-1"}
    /\ \A e \in DOMAIN ev_out :
          ev_out[e].class_name =
              CASE ev_out[e].class = 0 -> "unripe"
                [] ev_out[e].class = 1 -> "ripe"
                [] ev_out[e].class = 2 -> "old"
                [] ev_out[e].class = 3 -> "damaged"
                [] OTHER -> "-1"

\* An event was built for a class index outside the class set.
C19_Witness ==
    \E e \in DOMAIN ev_out :
        /\ ev_out[e].class \notin DOMAIN TOMATO_CLASSES
        /\ ev_out[e].class_name = "-1"

\* C20: the confidence of every built event lies within [0.0, 1.0].
C20_ConfidenceInUnitInterval ==
    \A e \in DOMAIN ev_out :
        /\ ev_out[e].confidence >= 0
        /\ ev_out[e].confidence <= ScoreOne

-----------------------------------------------------------------------------
(* Event ids: properties                                                    *)

IdSampleTimes == {0, 1, 10, 11}

IdSampleCounters == {0, 1, 10, 11, 999, 1000, 1001}

\* Distinct (second, counter) pairs format to distinct ids.
TomatoIdOneToOne ==
    \A t1, t2 \in IdSampleTimes, c1, c2 \in IdSampleCounters :
        TomatoId(t1, c1) = TomatoId(t2, c2) => (t1 = t2 /\ c1 = c2)

-----------------------------------------------------------------------------
(* Shutdown: properties                                                     *)

PublisherStopped == p_pc = "stopped" /\ ~p_loop /\ ~p_link

CameraReleased == release_calls = 1 /\ ~is_open /\ cap # "open"

\* C23: every way of leaving the trigger loop, an interrupt or an error that
\* no step handles, is followed by the publisher's disconnect (network
\* thread stopped, broker disconnected) and then by the camera's release,
\* and the process has ended only when both are done.
C23_ExitRunsCleanup ==
    /\ [](pc = "finally_release" => (PublisherStopped /\ release_calls = 0))
    /\ [](pc = "done" => (PublisherStopped /\ CameraReleased))
    /\ [](pc \in LoopPcs => (exit_cause = "none" /\ ~PublisherStopped /\ release_calls = 0))
    /\ (exit_cause # "none") ~> (pc = "done" /\ PublisherStopped /\ CameraReleased)

\* The process has ended after an error that left the loop, with a camera
\* that was open.
C23_Witness ==
    /\ pc = "done"
    /\ exit_cause = "error"
    /\ PublisherStopped
    /\ handle_frees = 1


-----------------------------------------------------------------------------
(* capture_multiple: properties                                             *)

\* The iterations of the call whose capture() yields a frame.
Captured ==
    {a \in 1..cm_in.n :
        is_open /\ \E r \in 1..RetryCount : cm_in.reads[a][r] = "frame"}

\* C22: capture_multiple(num_frames=n) calls capture() n times; it returns
\* a frame exactly when at least one of the n captures succeeded, and the
\* frame it returns is one of those captured whose sharpness score no
\* other captured frame exceeds.
C22_ReturnsSharpestCaptured ==
    \A e \in DOMAIN cm_out :
        LET o == cm_out[e] IN
        /\ o.calls = cm_in.n
        /\ (o.img = "none") = (Captured = {})
        /\ o.img = "frame" =>
              /\ o.attempt \in Captured
              /\ \A a \in Captured : cm_in.sharp[a] <= cm_in.sharp[o.attempt]

\* Of two captures, the first failed reads before its frame and the second
\* frame is the sharper one and is returned.
C22_Witness ==
    \E e \in DOMAIN cm_out :
        /\ cm_in.n = 2
        /\ Captured = {1, 2}
        /\ cm_in.reads[1][1] # "frame"
        /\ cm_in.sharp[1] < cm_in.sharp[2]
        /\ cm_out[e].attempt = 2

=============================================================================
